---- MODULE Spec2Model ----
(***************************************************************************)
(* Flashcard generation core of obsidian-auto-anki: the two generation     *)
(* entrypoints (convertNotesToFlashcards, convertStandaloneFileToFlash-    *)
(* cards), the prompt builder, the model selection, the media resolver     *)
(* and the per-choice response parser.                                     *)
(*                                                                         *)
(* Text is modelled as a sequence of atoms.  An atom is a TLA+ string      *)
(* that stands for a fixed run of characters; the atoms are chosen so      *)
(* that every operation of the code (JSON.parse, the two regular           *)
(* expressions, split, startsWith, endsWith, trim) acts on atom            *)
(* boundaries.  DQ is the double quote, BSDQ a backslash followed by a     *)
(* double quote, FENCE three backticks, LF a line feed, SP a space.        *)
(***************************************************************************)
EXTENDS Integers, Sequences, FiniteSets, TLC

DQ == "\""
BSDQ == "\\\""
FENCE == "<3 backticks>"
LF == "\n"
SP == " "

Whitespace == {SP, LF}

\* JavaScript values.  Every value is a record with a tag t; the other
\* field depends on the tag, so that two values of different kinds are
\* different records.
Undefined == [t |-> "undefined"]
JNull == [t |-> "null"]
JNum(n) == [t |-> "num", n |-> n]
JBool(b) == [t |-> "bool", b |-> b]
JStr(s) == [t |-> "str", s |-> s]
JArr(items) == [t |-> "arr", items |-> items]
JObj(members) == [t |-> "obj", members |-> members]

\* The outcome of JSON.parse when it throws SyntaxError.
SyntaxError == [t |-> "SyntaxError"]

NumberAtoms == {"0", "5"}
NumberOf(a) == IF a = "0" THEN 0 ELSE 5

\* ------------------------------------------------------------------------
\* JSON.parse, a recursive-descent parser over atoms.  A parse step returns
\* [ok, val, next]: whether a value was read, the value, and the index of
\* the first atom after it.
ParseFail == [ok |-> FALSE, val |-> Undefined, next |-> 0]
ParseOk(v, n) == [ok |-> TRUE, val |-> v, next |-> n]

RECURSIVE SkipWs(_, _)
SkipWs(s, i) ==
    IF i <= Len(s) /\ s[i] \in Whitespace THEN SkipWs(s, i + 1) ELSE i

\* The characters of a string literal whose opening quote is at i - 1: the
\* atoms up to the closing quote.  A raw line feed is a control character
\* and is rejected; BSDQ is the escape of a double quote.
RECURSIVE ParseChars(_, _, _)
ParseChars(s, i, acc) ==
    IF i > Len(s) THEN ParseFail
    ELSE IF s[i] = DQ THEN ParseOk(acc, i + 1)
    ELSE IF s[i] = LF THEN ParseFail
    ELSE IF s[i] = BSDQ THEN ParseChars(s, i + 1, Append(acc, DQ))
    ELSE ParseChars(s, i + 1, Append(acc, s[i]))

RECURSIVE ParseValue(_, _)
RECURSIVE ParseElements(_, _, _)
RECURSIVE ParseMembers(_, _, _)

\* The elements of an array after "[" or after a ",": value, then "," or "]".
ParseElements(s, i, acc) ==
    LET v == ParseValue(s, i)
        j == SkipWs(s, v.next)
    IN  IF ~v.ok \/ j > Len(s) THEN ParseFail
        ELSE IF s[j] = "," THEN ParseElements(s, j + 1, Append(acc, v.val))
        ELSE IF s[j] = "]" THEN ParseOk(JArr(Append(acc, v.val)), j + 1)
        ELSE ParseFail

\* The members of an object after "{" or after a ",": string, ":", value,
\* then "," or "}".  A repeated key keeps its last value.
ParseMembers(s, i, acc) ==
    LET k == SkipWs(s, i)
        key == IF k <= Len(s) /\ s[k] = DQ
               THEN ParseChars(s, k + 1, <<>>) ELSE ParseFail
        c == SkipWs(s, key.next)
        v == IF key.ok /\ c <= Len(s) /\ s[c] = ":"
             THEN ParseValue(s, c + 1) ELSE ParseFail
        j == SkipWs(s, v.next)
        members == (key.val :> v.val) @@ acc
    IN  IF ~v.ok \/ j > Len(s) THEN ParseFail
        ELSE IF s[j] = "," THEN ParseMembers(s, j + 1, members)
        ELSE IF s[j] = "}" THEN ParseOk(JObj(members), j + 1)
        ELSE ParseFail

ParseValue(s, i) ==
    LET j == SkipWs(s, i)
        k == SkipWs(s, j + 1)
    IN  IF j > Len(s) THEN ParseFail
        ELSE IF s[j] = "{" THEN
            IF k <= Len(s) /\ s[k] = "}" THEN ParseOk(JObj(<<>>), k + 1)
            ELSE ParseMembers(s, j + 1, <<>>)
        ELSE IF s[j] = "[" THEN
            IF k <= Len(s) /\ s[k] = "]" THEN ParseOk(JArr(<<>>), k + 1)
            ELSE ParseElements(s, j + 1, <<>>)
        ELSE IF s[j] = DQ THEN
            LET r == ParseChars(s, j + 1, <<>>)
            IN  IF r.ok THEN ParseOk(JStr(r.val), r.next) ELSE ParseFail
        ELSE IF s[j] \in NumberAtoms THEN ParseOk(JNum(NumberOf(s[j])), j + 1)
        ELSE IF s[j] = "null" THEN ParseOk(JNull, j + 1)
        ELSE IF s[j] = "true" THEN ParseOk(JBool(TRUE), j + 1)
        ELSE IF s[j] = "false" THEN ParseOk(JBool(FALSE), j + 1)
        ELSE ParseFail

\* JSON.parse(text): one value surrounded by optional whitespace, or a
\* SyntaxError.
JSONparse(s) ==
    LET r == ParseValue(s, 1)
    IN  IF r.ok /\ SkipWs(s, r.next) > Len(s) THEN r.val ELSE SyntaxError

\* value[key] of JavaScript for a value that is neither null nor undefined:
\* an own member of an object, undefined for anything else.
GetProp(v, key) ==
    IF v.t = "obj" /\ key \in DOMAIN v.members THEN v.members[key]
    ELSE Undefined

\* The truthiness of a JavaScript value.
Truthy(v) ==
    CASE v.t \in {"undefined", "null"} -> FALSE
      [] v.t = "num" -> v.n # 0
      [] v.t = "bool" -> v.b
      [] v.t = "str" -> v.s # <<>>
      [] OTHER -> TRUE

\* ------------------------------------------------------------------------
\* content.match(/FENCE(?:json)?\s*\n?([\s\S]*?)\n?\s*FENCE/): the leftmost
\* match.  IndexFrom(s, i, a) is the least index >= i of atom a in s, or 0.
RECURSIVE IndexFrom(_, _, _)
IndexFrom(s, i, a) ==
    IF i > Len(s) THEN 0
    ELSE IF s[i] = a THEN i
    ELSE IndexFrom(s, i + 1, a)

\* The least j in from..close with only whitespace in j..close-1: where the
\* lazy group stops, the whitespace before the closing fence being taken by
\* the \n?\s* that follows the group.
RECURSIVE TrimEnd(_, _, _)
TrimEnd(s, from, close) ==
    IF close > from /\ s[close - 1] \in Whitespace
    THEN TrimEnd(s, from, close - 1) ELSE close

\* [found, inner]: inner is group 1 of the match.  The opening fence is the
\* first one that has another fence after it, that is the first fence of
\* the text; "json" and the whitespace after it are consumed greedily; the
\* lazy group ends before the first fence that follows.
FenceMatch(s) ==
    LET open == IndexFrom(s, 1, FENCE)
        lang == IF open + 1 <= Len(s) /\ s[open + 1] = "json"
                THEN open + 2 ELSE open + 1
        from == SkipWs(s, lang)
        close == IndexFrom(s, from, FENCE)
    IN  IF open = 0 \/ close = 0 THEN [found |-> FALSE, inner |-> <<>>]
        ELSE [found |-> TRUE,
              inner |-> SubSeq(s, from, TrimEnd(s, from, close) - 1)]

\* String.prototype.trim.
RECURSIVE Trim(_)
Trim(s) ==
    IF s # <<>> /\ s[1] \in Whitespace THEN Trim(Tail(s))
    ELSE IF s # <<>> /\ s[Len(s)] \in Whitespace
         THEN Trim(SubSeq(s, 1, Len(s) - 1))
    ELSE s

QA_KEY == <<"questions_answers">>

\* What the callback of response.choices.forEach does with one choice:
\* either it pushes a value on card_choices or (an exception caught by the
\* inner catch) it only logs a warning.
Pushed(v) == [pushed |-> TRUE, entry |-> v]
Dropped == [pushed |-> FALSE, entry |-> Undefined]

\* The block entered when the direct parse gave no questions_answers: the
\* fenced block, if any, is parsed and its questions_answers pushed when
\* truthy; everything else throws.
FencedRecovery(content) ==
    LET jsonMatch == FenceMatch(content)
        jsonContent == JSONparse(jsonMatch.inner)
    IN  IF ~jsonMatch.found THEN Dropped
        ELSE IF jsonContent = SyntaxError THEN Dropped
        ELSE IF jsonContent = JNull THEN Dropped
        ELSE IF Truthy(GetProp(jsonContent, QA_KEY))
             THEN Pushed(GetProp(jsonContent, QA_KEY))
        ELSE Dropped

\* A variant of ParseChoice that pushes the parsed object itself.
ParseChoice_PushParsed(content) ==
    LET parsedContent == JSONparse(content)
    IN  IF parsedContent = SyntaxError THEN Dropped
        ELSE IF parsedContent = JNull THEN Dropped
        ELSE IF GetProp(parsedContent, QA_KEY) = Undefined
             THEN FencedRecovery(content)
        ELSE IF GetProp(parsedContent, QA_KEY) = JNull THEN Dropped
        ELSE Pushed(parsedContent)

\* The inner try block.  JSON.parse of the whole content comes first and
\* its SyntaxError goes to the catch; reading a property of null, or
\* .length of a null questions_answers, is a TypeError and goes there too.
ParseChoice(content) ==
    LET parsedContent == JSONparse(content)
    IN  IF parsedContent = SyntaxError THEN Dropped
        ELSE IF parsedContent = JNull THEN Dropped
        ELSE IF GetProp(parsedContent, QA_KEY) = Undefined
             THEN FencedRecovery(content)
        ELSE IF GetProp(parsedContent, QA_KEY) = JNull THEN Dropped
        ELSE Pushed(GetProp(parsedContent, QA_KEY))

\* ------------------------------------------------------------------------
\* image-utils.ts.  IMAGE_REGEX is /!\[([^\]]*)\]\(([^)]+)\)/g; BANG_BR is
\* the atom of its first two characters.
BANG_BR == "!["

\* An attempt to match IMAGE_REGEX at index i: the alt text runs to the
\* first "]", which "(" must follow at once, and the path is the non-empty
\* run up to the first ")".
MatchImageAt(s, i) ==
    LET rb == IndexFrom(s, i + 1, "]")
        rp == IndexFrom(s, rb + 2, ")")
    IN  IF i <= Len(s) /\ s[i] = BANG_BR /\ rb # 0
           /\ rb + 1 <= Len(s) /\ s[rb + 1] = "(" /\ rp > rb + 2
        THEN [ok |-> TRUE, alt |-> SubSeq(s, i + 1, rb - 1),
              path |-> SubSeq(s, rb + 2, rp - 1), end |-> rp]
        ELSE [ok |-> FALSE, alt |-> <<>>, path |-> <<>>, end |-> 0]

\* while ((match = IMAGE_REGEX.exec(markdownText)) !== null), the search
\* starting at index i.
RECURSIVE ExecFrom(_, _, _)
ExecFrom(s, i, images) ==
    IF i > Len(s) THEN images
    ELSE LET m == MatchImageAt(s, i)
         IN  IF m.ok
             THEN ExecFrom(s, m.end + 1,
                           Append(images, [alt |-> m.alt, path |-> m.path]))
             ELSE ExecFrom(s, i + 1, images)

extractImageReferences(markdownText) == ExecFrom(markdownText, 1, <<>>)

\* A variant of ReplaceFrom that stops at the first match, as a regular
\* expression without the g flag does.
RECURSIVE ReplaceFrom_Once(_, _, _)
ReplaceFrom_Once(s, i, out) ==
    IF i > Len(s) THEN out
    ELSE LET m == MatchImageAt(s, i)
         IN  IF m.ok
             THEN out \o (IF m.alt # <<>> THEN m.alt
                          ELSE <<"[Image: ">> \o m.path \o <<"]">>)
                      \o SubSeq(s, m.end + 1, Len(s))
             ELSE ReplaceFrom_Once(s, i + 1, Append(out, s[i]))

\* markdownText.replace(IMAGE_REGEX, (match, alt, path) => alt || placeholder)
RECURSIVE ReplaceFrom(_, _, _)
ReplaceFrom(s, i, out) ==
    IF i > Len(s) THEN out
    ELSE LET m == MatchImageAt(s, i)
         IN  IF m.ok
             THEN ReplaceFrom(s, m.end + 1,
                      out \o (IF m.alt # <<>> THEN m.alt
                              ELSE <<"[Image: ">> \o m.path \o <<"]">>))
             ELSE ReplaceFrom(s, i + 1, Append(out, s[i]))

stripImageMarkdown(markdownText) == ReplaceFrom(markdownText, 1, <<>>)

\* The part of s after the last atom sep (s itself without one):
\* s.split(sep).pop().
RECURSIVE AfterLast(_, _)
AfterLast(s, sep) ==
    LET k == IndexFrom(s, 1, sep)
    IN  IF k = 0 THEN s ELSE AfterLast(SubSeq(s, k + 1, Len(s)), sep)

\* toLowerCase, atom by atom.
LowerAtom(a) ==
    CASE a = "PNG" -> "png"
      [] a = "JPG" -> "jpg"
      [] a = "Jpeg" -> "jpeg"
      [] a = "PDF" -> "pdf"
      [] OTHER -> a
toLowerCase(s) == [i \in 1..Len(s) |-> LowerAtom(s[i])]

\* mimeTypes[extension.toLowerCase()] || 'image/jpeg'.  mimeTypes is an
\* object literal, so the lookup of a key that is not its own goes to
\* Object.prototype: "constructor" gives the function Object and
\* "__proto__" the prototype itself, both truthy; they are kept as their
\* text in a template string.
getMimeType(extension) ==
    LET e == toLowerCase(extension)
    IN  CASE e \in {<<"jpg">>, <<"jpeg">>} -> "image/jpeg"
          [] e = <<"png">> -> "image/png"
          [] e = <<"gif">> -> "image/gif"
          [] e = <<"bmp">> -> "image/bmp"
          [] e = <<"webp">> -> "image/webp"
          [] e = <<"pdf">> -> "application/pdf"
          [] e = <<"constructor">> -> "function Object() { [native code] }"
          [] e = <<"__proto__">> -> "[object Object]"
          [] OTHER -> "image/jpeg"

\* supportedFormats is a set of extensions here: only includes() reads it.
isSupportedImageFormat(path, supportedFormats) ==
    LET extension == toLowerCase(AfterLast(path, "."))
    IN  IF extension # <<>> THEN extension \in supportedFormats ELSE FALSE

isSupportedMediaFormat(path, supportedFormats) ==
    isSupportedImageFormat(path, supportedFormats)

BytesPerKB == 1024

\* A variant of TooLarge that refuses a file of exactly maxImageSize KB.
TooLarge_AtLimit(size, maxImageSize) == size >= maxImageSize * BytesPerKB

\* bytesToKB(size) > maxImageSize, without the division.
TooLarge(size, maxImageSize) == size > maxImageSize * BytesPerKB

\* path.split('.').pop()?.toLowerCase() || 'jpeg'
ExtensionOrJpeg(path) ==
    IF toLowerCase(AfterLast(path, ".")) # <<>>
    THEN toLowerCase(AfterLast(path, ".")) ELSE <<"jpeg">>

\* A TFile is [path, size, data]; its name is the last component of the path.
FileName(f) == AfterLast(f.path, "/")

endsWith(s, suffix) ==
    /\ Len(suffix) <= Len(s)
    /\ SubSeq(s, Len(s) - Len(suffix) + 1, Len(s)) = suffix

\* allFiles.find(pred), given the set of the indices of the files that
\* satisfy pred: the index of the first of them, or 0.
First(hits) ==
    IF hits = {} THEN 0 ELSE CHOOSE i \in hits : \A j \in hits : i <= j

\* A variant of ResolveImage that tries the end of the path before the
\* name.
ResolveImage_SuffixFirst(allFiles, imagePath) ==
    LET files == 1..Len(allFiles)
        direct == First({i \in files : allFiles[i].path = imagePath})
        byName == First({i \in files : FileName(allFiles[i]) = imagePath})
        bySuffix == First({i \in files : endsWith(allFiles[i].path, imagePath)})
        imageName == IF AfterLast(imagePath, "/") # <<>>
                     THEN AfterLast(imagePath, "/") ELSE imagePath
        byBase == First({i \in files : FileName(allFiles[i]) = imageName})
    IN  IF direct # 0 THEN direct
        ELSE IF bySuffix # 0 THEN bySuffix
        ELSE IF byName # 0 THEN byName
        ELSE byBase

\* The resolution of a reference path in processImages: the index in the
\* listing of the file found, or 0.  The vault holds files only, so
\* getAbstractFileByPath finds the file with exactly that path.
ResolveImage(allFiles, imagePath) ==
    LET files == 1..Len(allFiles)
        direct == First({i \in files : allFiles[i].path = imagePath})
        byName == First({i \in files : FileName(allFiles[i]) = imagePath})
        bySuffix == First({i \in files : endsWith(allFiles[i].path, imagePath)})
        imageName == IF AfterLast(imagePath, "/") # <<>>
                     THEN AfterLast(imagePath, "/") ELSE imagePath
        byBase == First({i \in files : FileName(allFiles[i]) = imageName})
    IN  IF direct # 0 THEN direct
        ELSE IF byName # 0 THEN byName
        ELSE IF bySuffix # 0 THEN bySuffix
        ELSE byBase

\* A variant of isWebUrl that knows http:// only.
isWebUrl_HttpOnly(imagePath) ==
    imagePath # <<>> /\ imagePath[1] = "http://"

isWebUrl(imagePath) ==
    imagePath # <<>> /\ imagePath[1] \in {"http://", "https://"}

\* base64 of the bytes of a file, kept as a term over the file's data.
btoa(data) == [base64 |-> data]

LogEntry(level, message) == [level |-> level, message |-> message]

\* The body of the for loop of processImages for one reference, up to the
\* call of readBinary: [file, log], file being the index of the file to
\* read, or 0 when the reference is skipped (continue).
CheckImage(allFiles, imageRef, settings) ==
    LET file == ResolveImage(allFiles, imageRef.path)
    IN  IF isWebUrl(imageRef.path)
        THEN [file |-> 0, log |-> <<LogEntry("info", "Skipping web image")>>]
        ELSE IF ~isSupportedImageFormat(imageRef.path, settings.supportedFormats)
        THEN [file |-> 0,
              log |-> <<LogEntry("warning", "Unsupported image format")>>]
        ELSE IF file = 0
        THEN [file |-> 0,
              log |-> <<LogEntry("warning", "Image file not found")>>]
        ELSE IF TooLarge(allFiles[file].size, settings.maxImageSize)
        THEN [file |-> 0, log |-> <<LogEntry("warning", "Image too large")>>]
        ELSE [file |-> file, log |-> <<>>]

\* The loop from reference i on, up to the next readBinary: [idx, file,
\* log], idx being the reference whose file is read (0 when the loop ends).
RECURSIVE ScanImages(_, _, _, _, _)
ScanImages(allFiles, refs, i, settings, log) ==
    IF i > Len(refs) THEN [idx |-> 0, file |-> 0, log |-> log]
    ELSE LET c == CheckImage(allFiles, refs[i], settings)
         IN  IF c.file # 0 THEN [idx |-> i, file |-> c.file, log |-> log]
             ELSE ScanImages(allFiles, refs, i + 1, settings, log \o c.log)

\* The ImageInfo pushed once readBinary has resolved.
ImageInfoOf(f, alt) ==
    [path |-> f.path, base64 |-> btoa(f.data),
     mimeType |-> getMimeType(ExtensionOrJpeg(f.path)), alt |-> alt]

\* ------------------------------------------------------------------------
\* The prompt builder.
SAMPLE_OUTPUT ==
    << [q |-> "What is a numeral system?",
        a |-> "A numeral system is a writing system for expressing numbers, using digits or other symbols in a consistent manner."],
       [q |-> "What is the goal of a numeral system?",
        a |-> "The goal of a numeral system is to represent a useful set of numbers (eg: integers, rational numbers), give every number represented a unique representation, and reflect the algebraic and arithmetic structure of the numbers."],
       [q |-> "What is a positional notation also known as?",
        a |-> "Place-value Notation"],
       [q |-> "What is a radix/base used for in the context of positional notation?",
        a |-> "To indicate the number of unique digits that are used to represent numbers in a position until the position of the digit is used to signify a power of the base number"],
       [q |-> "What numeral system uses a base of 2?",
        a |-> "Binary Numeral System"],
       [q |-> "What numeral system uses a base of 8?",
        a |-> "Octal Numeral System"],
       [q |-> "What numeral system uses a base of 10?",
        a |-> "Decimal Numeral System"],
       [q |-> "What numeral system uses a base of 12?",
        a |-> "Duodecimal Numeral System"],
       [q |-> "What numeral system uses a base of 16?",
        a |-> "Hexadecimal Numeral System"],
       [q |-> "What numeral system uses a base of 20?",
        a |-> "Vigesimal Numeral System"],
       [q |-> "What numeral system uses a base of 60?",
        a |-> "Sexagesimal Numeral System"],
       [q |-> "What is binary number representation?",
        a |-> "Binary number representation is a number expressed in the base-2 numeral system or binary numeral system."] >>

\* array.slice(0, num) for num >= 0.
Slice0(array, num) ==
    SubSeq(array, 1, IF num < Len(array) THEN num ELSE Len(array))

\* generateRepeatedSampleOutput: the test of its first line, and the
\* condition and one turn of its while loop (output.push(...SAMPLE_OUTPUT),
\* count += SAMPLE_OUTPUT.length).
\* `canonical` is the array SAMPLE_OUTPUT as it is when the line runs.
ShortEnough(num, canonical) == num < Len(canonical)
\* A variant of LoopCond that stops one turn early.
LoopCond_Early(count, num) == count + Len(SAMPLE_OUTPUT) < num
LoopCond(count, num) == count < num
LoopOutput(output, canonical) == output \o canonical
LoopCount(count, canonical) == count + Len(canonical)

RECURSIVE RepeatLoop(_, _, _)
RepeatLoop(count, output, num) ==
    IF LoopCond(count, num)
    THEN RepeatLoop(LoopCount(count, SAMPLE_OUTPUT),
                    LoopOutput(output, SAMPLE_OUTPUT), num)
    ELSE Slice0(output, num)

generateRepeatedSampleOutput(num) ==
    IF ShortEnough(num, SAMPLE_OUTPUT) THEN Slice0(SAMPLE_OUTPUT, num)
    ELSE RepeatLoop(0, <<>>, num)

\* A message is [role, content].  A content is a text, [text], or an array
\* of segments, [parts].  The texts that the code builds from a template
\* are kept as the template's name and the values put in it; JSON.stringify
\* of a value is kept as [stringify |-> value].
TextSegment(text) == [type |-> "text", text |-> text]
ImageSegment(image) ==
    [type |-> "image_url",
     image_url |-> [url |-> <<"data:", image.mimeType, ";base64,", image.base64>>]]

SystemPrompt(name, num) == [template |-> name, num |-> num]

\* The user content of createMessages: \n, notes.trim(), \n.
NotesText(notes) == <<LF>> \o Trim(notes) \o <<LF>>

SampleAssistant(num) ==
    [role |-> "assistant",
     content |-> [stringify |->
                    [questions_answers |-> generateRepeatedSampleOutput(num)]]]

\* A variant of createMessages whose user content is an array of segments
\* whether or not there are images.
createMessages_AlwaysParts(notes, num, images) ==
    << [role |-> "system",
        content |-> [text |-> SystemPrompt(IF Len(images) > 0
                                           THEN "notes and images"
                                           ELSE "notes", num)]],
       [role |-> "user", content |-> [text |-> "SAMPLE_NOTE"]],
       SampleAssistant(num),
       [role |-> "user",
        content |-> [parts |-> <<TextSegment(NotesText(notes))>> \o
                       [i \in 1..Len(images) |-> ImageSegment(images[i])]]] >>

\* A variant of createMessages that puts the images before the text.
createMessages_ImagesFirst(notes, num, images) ==
    << [role |-> "system",
        content |-> [text |-> SystemPrompt(IF Len(images) > 0
                                           THEN "notes and images"
                                           ELSE "notes", num)]],
       [role |-> "user", content |-> [text |-> "SAMPLE_NOTE"]],
       SampleAssistant(num),
       IF Len(images) > 0
       THEN [role |-> "user",
             content |-> [parts |->
                            [i \in 1..Len(images) |-> ImageSegment(images[i])]
                            \o <<TextSegment(NotesText(notes))>>]]
       ELSE [role |-> "user", content |-> [text |-> NotesText(notes)]] >>

\* createMessages(notes, num, images); images is <<>> for undefined.
createMessages(notes, num, images) ==
    << [role |-> "system",
        content |-> [text |-> SystemPrompt(IF Len(images) > 0
                                           THEN "notes and images"
                                           ELSE "notes", num)]],
       [role |-> "user", content |-> [text |-> "SAMPLE_NOTE"]],
       SampleAssistant(num),
       IF Len(images) > 0
       THEN [role |-> "user",
             content |-> [parts |-> <<TextSegment(NotesText(notes))>> \o
                            [i \in 1..Len(images) |-> ImageSegment(images[i])]]]
       ELSE [role |-> "user", content |-> [text |-> NotesText(notes)]] >>

\* const num = 1 in createMessagesForStandaloneFile.
StandaloneSampleNum == 1

\* fileInfo.alt || fileInfo.path
AltOrPath(fileInfo) == IF fileInfo.alt # <<>> THEN fileInfo.alt ELSE fileInfo.path

createMessagesForStandaloneFile(fileInfo, num_q) ==
    << [role |-> "system",
        content |-> [text |-> SystemPrompt("standalone file", num_q)]],
       SampleAssistant(StandaloneSampleNum),
       [role |-> "user",
        content |-> [parts |->
            << TextSegment([template |-> "Please analyze this file",
                            num |-> num_q, name |-> AltOrPath(fileInfo)]),
               ImageSegment(fileInfo) >>]] >>

\* ------------------------------------------------------------------------
\* checkAI(provider, apiKey, baseUrl): [ret, log], the value returned and
\* the lines logged.  apiKey is a string; baseUrl is Undefined when absent
\* and a JStr otherwise.
\* A variant of checkAI that wants an API key for every provider.
checkAI_KeyForAll(provider, apiKey, baseUrl) ==
    IF apiKey = ""
    THEN [ret |-> FALSE,
          log |-> <<LogEntry("error", "OpenAI API key not provided")>>]
    ELSE IF provider = "ollama" /\ (~Truthy(baseUrl) \/ baseUrl = JStr(<<>>))
    THEN [ret |-> FALSE,
          log |-> <<LogEntry("error", "Ollama base URL not provided")>>]
    ELSE [ret |-> TRUE, log |-> <<>>]

checkAI(provider, apiKey, baseUrl) ==
    IF provider = "openai"
    THEN IF apiKey = ""
         THEN [ret |-> FALSE,
               log |-> <<LogEntry("error", "OpenAI API key not provided")>>]
         ELSE [ret |-> TRUE, log |-> <<>>]
    ELSE IF provider = "ollama"
    THEN IF ~Truthy(baseUrl) \/ baseUrl = JStr(<<>>)
         THEN [ret |-> FALSE,
               log |-> <<LogEntry("error", "Ollama base URL not provided")>>]
         ELSE [ret |-> TRUE, log |-> <<>>]
    ELSE [ret |-> TRUE, log |-> <<>>]

checkGpt(openAiKey) == checkAI("openai", openAiKey, Undefined)

\* ------------------------------------------------------------------------
\* Model selection and the completion parameters.
OPENAI_TEXT_MODEL == "gpt-3.5-turbo-1106"
OPENAI_VISION_MODEL == "gpt-4-vision-preview"
OLLAMA_DEFAULT_MODEL == "llama3.2"
OLLAMA_DEFAULT_VISION_MODEL == "llama3.2-vision:11b"

\* A multimodalSettings argument that was not passed.
NoSettings == [absent |-> TRUE]
Enabled(settings) == settings # NoSettings /\ settings.enabled

\* A variant of NotesModel that takes the vision model of ollama whenever
\* multimodal is enabled, whether or not an image was processed.
NotesModel_ByEnabled(provider, model, settings, nImages) ==
    IF provider = "openai"
    THEN (IF nImages > 0 THEN OPENAI_VISION_MODEL ELSE OPENAI_TEXT_MODEL)
    ELSE IF Enabled(settings) THEN settings.visionModel
    ELSE IF model # "" THEN model
    ELSE OLLAMA_DEFAULT_MODEL

\* modelToUse of convertNotesToFlashcards.
NotesModel(provider, model, settings, nImages) ==
    IF provider = "openai"
    THEN (IF nImages > 0 THEN OPENAI_VISION_MODEL ELSE OPENAI_TEXT_MODEL)
    ELSE IF nImages > 0 /\ Enabled(settings) THEN settings.visionModel
    ELSE IF model # "" THEN model
    ELSE OLLAMA_DEFAULT_MODEL

\* modelToUse of convertStandaloneFileToFlashcards.
FileModel(provider, settings) ==
    IF provider = "openai" THEN OPENAI_VISION_MODEL
    ELSE IF settings.visionModel # "" THEN settings.visionModel
    ELSE OLLAMA_DEFAULT_VISION_MODEL

\* const { max_tokens_per_question, ...completionOptions } = options
CompletionOptions(options) ==
    [k \in DOMAIN options \ {"max_tokens_per_question"} |-> options[k]]

\* A variant of NotesJsonFormat that looks at the provider alone.
NotesJsonFormat_AnyOpenAI(provider, nImages) == provider = "openai"

\* Whether response_format is set on the parameters of a notes request.
NotesJsonFormat(provider, nImages) == provider = "openai" /\ nImages = 0

\* completionParams of convertNotesToFlashcards.  A later key of an object
\* literal overrides an earlier one, as the left operand of @@ does.
NotesParams(provider, model, settings, options, processedNotes, num_q, num, processedImages) ==
    (IF NotesJsonFormat(provider, Len(processedImages))
     THEN [response_format |-> [type |-> "json_object"]] ELSE <<>>)
    @@ [model |-> NotesModel(provider, model, settings, Len(processedImages)),
        messages |-> createMessages(processedNotes, num_q, processedImages),
        max_tokens |-> options.max_tokens_per_question * num_q,
        n |-> num,
        stream |-> FALSE]
    @@ CompletionOptions(options)

\* completionParams of convertStandaloneFileToFlashcards.
FileParams(provider, settings, options, processedFile, num_q, num) ==
    [model |-> FileModel(provider, settings),
     messages |-> createMessagesForStandaloneFile(processedFile, num_q),
     max_tokens |-> options.max_tokens_per_question * num_q * num,
     stream |-> FALSE]
    @@ CompletionOptions(options)

\* ------------------------------------------------------------------------
\* The response reconciler: response.choices.forEach of both entrypoints.
\* A choice is [message |-> [content |-> c]], c a string (JStr) or null.

\* set.message.content ?? ''
NotesContent(choice) ==
    IF choice.message.content = JNull THEN <<>> ELSE choice.message.content.s

\* set.message?.content?.trim() || ''
FileContent(choice) ==
    IF choice.message.content = JNull THEN <<>>
    ELSE Trim(choice.message.content.s)

\* A variant of OnParseError that pushes an empty entry as a placeholder.
OnParseError_Placeholder(card_choices) == Append(card_choices, JArr(<<>>))

\* The catch of the inner try: a warning, card_choices as they were.
OnParseError(card_choices) == card_choices

\* The callback: card_choices after one choice.
OnChoice(card_choices, content) ==
    IF ParseChoice(content).pushed
    THEN Append(card_choices, ParseChoice(content).entry)
    ELSE OnParseError(card_choices)

\* The log lines of the callback of convertNotesToFlashcards (the one of
\* the standalone entrypoint logs the content at level debug); the fenced
\* push returns before the info line.
ChoiceLog(contentLevel, content) ==
    <<LogEntry(contentLevel, "content")>> \o
    (IF ~ParseChoice(content).pushed
     THEN <<LogEntry("warning", "Failed to parse response choice")>>
     ELSE IF GetProp(JSONparse(content), QA_KEY) # Undefined
     THEN <<LogEntry("info", "Choice: generated questions and answers")>>
     ELSE <<>>)

RECURSIVE ForEachNotes(_, _, _)
ForEachNotes(choices, idx, card_choices) ==
    IF idx > Len(choices) THEN card_choices
    ELSE ForEachNotes(choices, idx + 1,
                      OnChoice(card_choices, NotesContent(choices[idx])))

RECURSIVE ForEachFile(_, _, _)
ForEachFile(choices, idx, card_choices) ==
    IF idx > Len(choices) THEN card_choices
    ELSE ForEachFile(choices, idx + 1,
                     OnChoice(card_choices, FileContent(choices[idx])))

RECURSIVE ForEachLog(_, _, _, _)
ForEachLog(choices, idx, entry, lg) ==
    IF idx > Len(choices) THEN lg
    ELSE ForEachLog(choices, idx + 1, entry,
            lg \o (IF entry = "notes"
                   THEN ChoiceLog("info", NotesContent(choices[idx]))
                   ELSE ChoiceLog("debug", FileContent(choices[idx]))))

\* ------------------------------------------------------------------------
\* The inputs of the model.
MaxNumQ == 2
MaxNum == 2

DEFAULT_MAX_IMAGE_SIZE == 5000
DEFAULT_TOKENS_PER_QUESTION == 100

DefaultFormats ==
    {<<"jpg">>, <<"jpeg">>, <<"png">>, <<"gif">>, <<"bmp">>, <<"webp">>}

DefaultOptions ==
    [temperature |-> 1, top_p |-> 1, frequency_penalty |-> 0,
     presence_penalty |-> 0,
     max_tokens_per_question |-> DEFAULT_TOKENS_PER_QUESTION]

Settings(enabled, visionModel) ==
    [enabled |-> enabled, visionModel |-> visionModel,
     maxImageSize |-> DEFAULT_MAX_IMAGE_SIZE,
     supportedFormats |-> DefaultFormats]

SettingsValues ==
    {NoSettings, Settings(FALSE, "llava"), Settings(TRUE, "llava"),
     Settings(TRUE, "")}

Providers == {"openai", "ollama"}
API_KEY == "sk-key"
BASE_URL == JStr(<<"http://localhost:11434">>)
Models == {"", "mistral"}
NumQValues == (1..MaxNumQ) \cup {Len(SAMPLE_OUTPUT)}
NumValues == 1..MaxNum

\* The content store: the listing of vault.getFiles().
Vault ==
    << [path |-> <<"d", "/", "a", ".", "png">>, size |-> 2048, data |-> "A"],
       [path |-> <<"big", ".", "png">>, size |-> 6144000, data |-> "B"],
       [path |-> <<"doc", ".", "pdf">>, size |-> 1024, data |-> "C"] >>

NotesValues ==
    { <<"Cells", SP, "divide">>,
      <<SP, "See", SP, BANG_BR, "fig", "]", "(", "d", "/", "a", ".", "png",
        ")", LF>>,
      <<BANG_BR, "]", "(", "https://", "x", "/", "a", ".", "png", ")", SP,
        BANG_BR, "big", "]", "(", "big", ".", "png", ")">>,
      <<BANG_BR, "one", "]", "(", "d", "/", "a", ".", "png", ")", SP,
        BANG_BR, "]", "(", "https://", "x", "/", "a", ".", "png", ")", SP,
        BANG_BR, "two", "]", "(", "a", ".", "png", ")">> }

\* app is kept as the listing of its vault; a TFile argument is the index of
\* the file in the listing.
NotesArgs ==
    [entry : {"notes"}, app : {Vault}, provider : Providers,
     apiKey : {API_KEY}, baseUrl : {BASE_URL}, notes : NotesValues,
     num_q : NumQValues, num : NumValues, options : {DefaultOptions},
     model : Models, multimodalSettings : SettingsValues]

FileArgs ==
    [entry : {"file"}, app : {Vault}, provider : Providers,
     apiKey : {API_KEY}, baseUrl : {BASE_URL}, file : 1..Len(Vault),
     num_q : NumQValues, num : NumValues, options : {DefaultOptions},
     model : {""}, multimodalSettings : SettingsValues]

\* Texts a completion choice may hold.
Quoted(w) == <<DQ, w, DQ>>
PairText(q, a) ==
    <<"{">> \o Quoted("q") \o <<":">> \o Quoted(q) \o <<",">> \o
    Quoted("a") \o <<":">> \o Quoted(a) \o <<"}">>
QAText(pairs) ==
    <<"{">> \o Quoted("questions_answers") \o <<":", "[">> \o pairs \o
    <<"]", "}">>
\* The text of a list of [q, a] pairs, without any whitespace.
RECURSIVE PairsText(_)
PairsText(pairs) ==
    IF pairs = <<>> THEN <<>>
    ELSE PairText(pairs[1].q, pairs[1].a) \o
         (IF Len(pairs) > 1 THEN <<",">> ELSE <<>>) \o PairsText(Tail(pairs))
DirectText(pairs) == QAText(PairsText(pairs))
XY == [q |-> "X", a |-> "Y"]
YX == [q |-> "Y", a |-> "X"]
PairLists == {<<XY>>, <<XY, YX>>}
OnePair == DirectText(<<XY>>)
TwoPairs == DirectText(<<XY, YX>>)
FencedJson == <<FENCE, "json", LF>> \o OnePair \o <<LF, FENCE>>
FencedInProse ==
    <<"Sure", SP, FENCE, LF>> \o TwoPairs \o <<LF, FENCE, SP, "Done">>
Prose == <<"Sorry", SP, "no">>
FenceInString ==
    <<"{">> \o Quoted("note") \o <<":", DQ, FENCE, SP, "5", SP, FENCE, DQ,
    "}", LF>>

ContentValues ==
    {JStr(OnePair), JStr(TwoPairs), JStr(FencedJson), JStr(FencedInProse),
     JStr(Prose), JStr(FenceInString), JNull}

Choice(c) == [message |-> [content |-> c]]

RECURSIVE SeqsUpTo(_, _)
SeqsUpTo(S, n) ==
    IF n = 0 THEN {<<>>}
    ELSE LET shorter == SeqsUpTo(S, n - 1)
         IN  shorter \cup {Append(q, x) : q \in shorter, x \in S}

\* The choices of a ChatCompletion: the provider returns no more choices
\* than the samples the caller wants.
ChoiceSeqs(num) == SeqsUpTo({Choice(c) : c \in ContentValues}, num)

\* What client.chat.completions.create rejects with: no response, or a
\* response with a status and an error body.
Errors ==
    { [response |-> FALSE, status |-> 0],
      [response |-> TRUE, status |-> 401],
      [response |-> TRUE, status |-> 500] }

\* ------------------------------------------------------------------------
\* The state of one invocation of an entrypoint.
VARIABLES
    pc,               \* "idle", "reading", "awaiting" or "done"
    args,             \* the arguments of the call
    imageReferences,  \* processImages: the references of the notes
    imgIdx,           \* processImages: the reference whose file is read
    reading,          \* the file (index in the listing) passed to readBinary
    processedImages,  \* the ImageInfo collected so far
    request,          \* completionParams as submitted
    submissions,      \* calls of client.chat.completions.create
    response,         \* the choices of the ChatCompletion received
    outcome,          \* "pending", "returned" or "raised"
    completion,       \* "none", "resolved" or "rejected": how create settled
    result,           \* the value returned
    log,              \* the lines given to logger.log
    gen,              \* one call of generateRepeatedSampleOutput, by steps
    lastIndex,        \* IMAGE_REGEX.lastIndex, the state of the module
    marks,            \* lastIndex on entering and leaving the functions
                      \* that use IMAGE_REGEX
    reqs              \* the invocations in flight at the same time

\* The state shared by, and of, the invocations in flight at the same time.
concVars == <<lastIndex, marks, reqs>>

vars == <<pc, args, imageReferences, imgIdx, reading, processedImages,
          request, submissions, response, outcome, completion, result, log,
          gen, concVars>>

\* The state of the entrypoints, which the steps of gen leave alone.
entryVars == <<pc, args, imageReferences, imgIdx, reading, processedImages,
               request, submissions, response, outcome, completion, result,
               log>>

NoArgs == [absent |-> TRUE]

\* The invocations of convertNotesToFlashcards in flight at the same time.
MaxRequests == 2
Requests == 1..MaxRequests
IdleRequest ==
    [pc |-> "idle", notes |-> <<>>, refs |-> <<>>, idx |-> 0, reading |-> 0,
     images |-> <<>>, request |-> [absent |-> TRUE], result |-> <<>>]
NoRequest == [absent |-> TRUE]

Init ==
    /\ pc = "idle"
    /\ args = NoArgs
    /\ imageReferences = <<>>
    /\ imgIdx = 0
    /\ reading = 0
    /\ processedImages = <<>>
    /\ request = NoRequest
    /\ submissions = 0
    /\ response = <<>>
    /\ outcome = "pending"
    /\ completion = "none"
    /\ result = <<>>
    /\ log = <<>>
    /\ gen = [pc |-> "idle", num |-> 0, count |-> 0, output |-> <<>>,
              ret |-> <<>>, canonical |-> SAMPLE_OUTPUT]
    /\ lastIndex = 0
    /\ marks = {}
    /\ reqs = [r \in Requests |-> IdleRequest]

\* A variant of ProcessedNotes that strips the notes whether or not an
\* image was processed.
ProcessedNotes_Always(notes, images) == stripImageMarkdown(notes)

\* processedNotes: the notes are stripped once an image was processed.
ProcessedNotes(notes, images) ==
    IF Len(images) > 0 THEN stripImageMarkdown(notes) ELSE notes

\* convertNotesToFlashcards from the loop of processImages at reference
\* `from` to its next await: the readBinary of the next file to read, or,
\* the loop over, client.chat.completions.create.
NotesContinue(a, refs, from, images, lg) ==
    LET scan == ScanImages(a.app, refs, from, a.multimodalSettings, lg)
    IN  /\ imageReferences' = refs
        /\ processedImages' = images
        /\ imgIdx' = scan.idx
        /\ reading' = scan.file
        /\ IF scan.idx # 0
           THEN /\ pc' = "reading"
                /\ log' = scan.log
                /\ UNCHANGED <<request, submissions>>
           ELSE /\ pc' = "awaiting"
                /\ request' = NotesParams(a.provider, a.model,
                                  a.multimodalSettings, a.options,
                                  ProcessedNotes(a.notes, images),
                                  a.num_q, a.num, images)
                /\ submissions' = submissions + 1
                /\ log' = scan.log \o
                          (IF Len(images) > 0
                           THEN <<LogEntry("info", "Processing images with notes")>>
                           ELSE <<>>)
        /\ UNCHANGED <<response, outcome, completion, result, gen, concVars>>

convertNotesToFlashcards(a) ==
    /\ pc = "idle"
    /\ args' = a
    /\ NotesContinue(a, IF Enabled(a.multimodalSettings)
                        THEN extractImageReferences(a.notes) ELSE <<>>,
                     1, <<>>, log)

\* readBinary of processImages resolves: the ImageInfo is pushed.
NotesReadResolved ==
    /\ pc = "reading" /\ args.entry = "notes"
    /\ NotesContinue(args, imageReferences, imgIdx + 1,
           Append(processedImages,
                  ImageInfoOf(args.app[reading], imageReferences[imgIdx].alt)),
           Append(log, LogEntry("info", "Successfully processed image")))
    /\ UNCHANGED args

\* readBinary of processImages rejects: the catch of the loop body.
NotesReadRejected ==
    /\ pc = "reading" /\ args.entry = "notes"
    /\ NotesContinue(args, imageReferences, imgIdx + 1, processedImages,
           Append(log, LogEntry("error", "Error processing image")))
    /\ UNCHANGED args

\* The catch of the first try of convertNotesToFlashcards.
NotesErrorLog(err) ==
    IF ~err.response THEN LogEntry("error", "Could not connect")
    ELSE LogEntry("error", "ERR status: Could not connect")

\* A variant of NotesCompletionRejected that submits the request again.
NotesCompletionRejected_Retry(err) ==
    /\ pc = "awaiting" /\ args.entry = "notes"
    /\ log' = Append(log, NotesErrorLog(err))
    /\ submissions' = submissions + 1
    /\ UNCHANGED <<pc, args, imageReferences, imgIdx, reading,
                   processedImages, request, response, outcome, completion,
                   result, gen, concVars>>

NotesCompletionRejected(err) ==
    /\ pc = "awaiting" /\ args.entry = "notes"
    /\ pc' = "done"
    /\ log' = Append(log, NotesErrorLog(err))
    /\ completion' = "rejected"
    /\ outcome' = "returned"
    /\ result' = <<>>
    /\ UNCHANGED <<args, imageReferences, imgIdx, reading, processedImages,
                   request, submissions, response, gen, concVars>>

NotesCompletionResolved(choices) ==
    /\ pc = "awaiting" /\ args.entry = "notes"
    /\ pc' = "done"
    /\ response' = choices
    /\ log' = ForEachLog(choices, 1, "notes",
                         Append(log, LogEntry("info", "Generated choices")))
    /\ completion' = "resolved"
    /\ outcome' = "returned"
    /\ result' = ForEachNotes(choices, 1, <<>>)
    /\ UNCHANGED <<args, imageReferences, imgIdx, reading, processedImages,
                   request, submissions, gen, concVars>>

\* The catch of the first try of convertStandaloneFileToFlashcards: the
\* error is logged and thrown again.
FileRaise(message) ==
    /\ pc' = "done"
    /\ log' = Append(log, LogEntry("error", message))
    /\ outcome' = "raised"
    /\ UNCHANGED <<imageReferences, imgIdx, processedImages, request,
                   submissions, response, result, gen, concVars>>

\* convertStandaloneFileToFlashcards up to the readBinary of
\* processStandaloneFile, or to the throw when the file is refused.
convertStandaloneFileToFlashcards(a) ==
    /\ pc = "idle"
    /\ args' = a
    /\ IF ~Enabled(a.multimodalSettings)
       THEN /\ FileRaise("Multimodal support is not enabled")
            /\ UNCHANGED <<reading, completion>>
       ELSE IF ~isSupportedMediaFormat(a.app[a.file].path,
                                       a.multimodalSettings.supportedFormats)
               \/ TooLarge(a.app[a.file].size,
                           a.multimodalSettings.maxImageSize)
       THEN /\ FileRaise("Failed to process file")
            /\ UNCHANGED <<reading, completion>>
       ELSE /\ pc' = "reading"
            /\ reading' = a.file
            /\ UNCHANGED <<imageReferences, imgIdx, processedImages, request,
                           submissions, response, outcome, completion, result,
                           log, gen, concVars>>

\* readBinary of processStandaloneFile resolves: the request is built and
\* submitted.  alt is file.name.
FileReadResolved ==
    /\ pc = "reading" /\ args.entry = "file"
    /\ pc' = "awaiting"
    /\ request' = FileParams(args.provider, args.multimodalSettings,
                      args.options,
                      ImageInfoOf(args.app[reading], FileName(args.app[reading])),
                      args.num_q, args.num)
    /\ submissions' = submissions + 1
    /\ log' = log \o <<LogEntry("info", "Successfully processed standalone file"),
                       LogEntry("info", "Processing standalone file"),
                       LogEntry("info", "Requesting flashcards for standalone file")>>
    /\ UNCHANGED <<args, imageReferences, imgIdx, reading, processedImages,
                   response, outcome, completion, result, gen, concVars>>

\* readBinary rejects: processStandaloneFile logs and returns null, and the
\* entrypoint throws.
FileReadRejected ==
    /\ pc = "reading" /\ args.entry = "file"
    /\ pc' = "done"
    /\ log' = log \o <<LogEntry("error", "Error processing standalone file"),
                       LogEntry("error", "Failed to process file")>>
    /\ outcome' = "raised"
    /\ UNCHANGED <<args, imageReferences, imgIdx, reading, processedImages,
                   request, submissions, response, completion, result, gen, concVars>>

FileCompletionRejected(err) ==
    /\ pc = "awaiting" /\ args.entry = "file"
    /\ FileRaise("Failed to generate flashcards for standalone file")
    /\ completion' = "rejected"
    /\ UNCHANGED <<args, reading>>

FileCompletionResolved(choices) ==
    /\ pc = "awaiting" /\ args.entry = "file"
    /\ pc' = "done"
    /\ response' = choices
    /\ log' = ForEachLog(choices, 1, "file",
                  Append(log, LogEntry("info", "Received response for standalone file")))
    /\ completion' = "resolved"
    /\ outcome' = "returned"
    /\ result' = ForEachFile(choices, 1, <<>>)
    /\ UNCHANGED <<args, imageReferences, imgIdx, reading, processedImages,
                   request, submissions, gen, concVars>>

Next ==
    \/ pc = "idle" /\ \E a \in NotesArgs : convertNotesToFlashcards(a)
    \/ NotesReadResolved
    \/ NotesReadRejected
    \/ \E err \in Errors : NotesCompletionRejected(err)
    \/ /\ pc = "awaiting"
       /\ \E choices \in ChoiceSeqs(args.num) : NotesCompletionResolved(choices)
    \/ pc = "idle" /\ \E a \in FileArgs : convertStandaloneFileToFlashcards(a)
    \/ FileReadResolved
    \/ FileReadRejected
    \/ \E err \in Errors : FileCompletionRejected(err)
    \/ /\ pc = "awaiting"
       /\ \E choices \in ChoiceSeqs(args.num) : FileCompletionResolved(choices)

Spec == Init /\ [][Next]_vars

\* ------------------------------------------------------------------------
\* generateRepeatedSampleOutput(num) by steps: the call, each turn of the
\* while loop, the return.
MaxSampleNum == 40

GenCall(num) ==
    /\ gen.pc = "idle"
    /\ gen' = IF ShortEnough(num, gen.canonical)
              THEN [gen EXCEPT !.pc = "done", !.num = num,
                               !.ret = Slice0(gen.canonical, num)]
              ELSE [gen EXCEPT !.pc = "loop", !.num = num]
    /\ UNCHANGED <<entryVars, concVars>>

\* output.push(...SAMPLE_OUTPUT) pushes on output, an array of its own:
\* SAMPLE_OUTPUT is read only.
GenLoop ==
    /\ gen.pc = "loop"
    /\ LoopCond(gen.count, gen.num)
    /\ gen' = [gen EXCEPT !.output = LoopOutput(gen.output, gen.canonical),
                          !.count = LoopCount(gen.count, gen.canonical)]
    /\ UNCHANGED <<entryVars, concVars>>

GenReturn ==
    /\ gen.pc = "loop"
    /\ ~LoopCond(gen.count, gen.num)
    /\ gen' = [gen EXCEPT !.pc = "done", !.ret = Slice0(gen.output, gen.num)]
    /\ UNCHANGED <<entryVars, concVars>>

NextSample ==
    \/ \E num \in 0..MaxSampleNum : GenCall(num)
    \/ GenLoop
    \/ GenReturn

SpecSample == Init /\ [][NextSample]_vars

\* ------------------------------------------------------------------------
\* The properties.

ContentOf(entry, choice) ==
    IF entry = "notes" THEN NotesContent(choice) ELSE FileContent(choice)

EntriesOf(entry, choices) ==
    IF entry = "notes" THEN ForEachNotes(choices, 1, <<>>)
    ELSE ForEachFile(choices, 1, <<>>)

\* The text is a JSON object whose questions_answers is an array.
IsQAObject(text) ==
    /\ JSONparse(text).t = "obj"
    /\ GetProp(JSONparse(text), QA_KEY).t = "arr"

\* The content holds a fenced block whose inner text is such an object.
IsFencedQA(choice) ==
    /\ choice.message.content # JNull
    /\ FenceMatch(choice.message.content.s).found
    /\ IsQAObject(FenceMatch(choice.message.content.s).inner)

Unfenced(choice) ==
    IF IsFencedQA(choice)
    THEN Choice(JStr(FenceMatch(choice.message.content.s).inner))
    ELSE choice

\* C1: in both entrypoints a choice whose content is a fenced code block
\* (with or without the json tag, with or without prose around it) around a
\* JSON object with a questions_answers array yields the entry that the
\* inner JSON alone would yield: the result for the choices received is the
\* result for the same choices with each such block replaced by its inner
\* text.
C1_FencedAsUnfenced ==
    completion = "resolved" =>
        result = EntriesOf(args.entry,
                     [i \in 1..Len(response) |-> Unfenced(response[i])])

\* The array of JavaScript objects {q, a} of a list of pairs.
PairsValue(pairs) ==
    JArr([i \in 1..Len(pairs) |->
            JObj((<<"q">> :> JStr(<<pairs[i].q>>)) @@
                 (<<"a">> :> JStr(<<pairs[i].a>>)))])

IsDirect(choice) ==
    /\ choice.message.content # JNull
    /\ \E pairs \in PairLists : choice.message.content.s = DirectText(pairs)

PairsOf(choice) ==
    CHOOSE pairs \in PairLists : choice.message.content.s = DirectText(pairs)

\* The place in the result of the entry of choice i, should it have one:
\* after the entries of the choices before it.
PlaceOf(i) == Len(EntriesOf(args.entry, SubSeq(response, 1, i - 1))) + 1

\* C2: a choice whose content is a JSON object with the key
\* questions_answers holding an array of {q, a} pairs has as its entry
\* exactly that array: the same pairs in the same order.
C2_DirectParse ==
    completion = "resolved" =>
        \A i \in 1..Len(response) :
            IsDirect(response[i]) =>
                /\ PlaceOf(i) <= Len(result)
                /\ result[PlaceOf(i)] = PairsValue(PairsOf(response[i]))
                /\ PlaceOf(i + 1) = PlaceOf(i) + 1

\* The one choice {"questions_answers":[{"q":"X","a":"Y"}]} was received and
\* the result is the one entry with the one pair X, Y.
C2_Witness ==
    /\ completion = "resolved"
    /\ response = <<Choice(JStr(
           <<"{", DQ, "questions_answers", DQ, ":", "[", "{", DQ, "q", DQ,
             ":", DQ, "X", DQ, ",", DQ, "a", DQ, ":", DQ, "Y", DQ, "}", "]",
             "}">>))>>
    /\ result = <<JArr(<<JObj((<<"q">> :> JStr(<<"X">>)) @@
                             (<<"a">> :> JStr(<<"Y">>)))>>)>>

\* The choices that parse, and the k-th of them.
ParsingChoices ==
    {i \in 1..Len(response) :
        ParseChoice(ContentOf(args.entry, response[i])).pushed}
KthOf(S, k) == CHOOSE i \in S : Cardinality({j \in S : j <= i}) = k

\* C3: whatever the choices received, the entrypoint returns, and returns
\* the entries of the choices that parse, in the order of the choices; a
\* choice that does not parse (plain prose among them) adds nothing and
\* changes no other entry; so the result is no longer than the choices.
C3_ParseIsolation ==
    completion = "resolved" =>
        /\ outcome = "returned"
        /\ Len(result) = Cardinality(ParsingChoices)
        /\ Len(result) <= Len(response)
        /\ \A k \in 1..Len(result) :
              result[k] = ParseChoice(ContentOf(args.entry,
                              response[KthOf(ParsingChoices, k)])).entry
        /\ \A i \in 1..Len(response) :
              response[i] = Choice(JStr(Prose)) => i \notin ParsingChoices

\* Plain prose came first and a choice that parses second: the result
\* holds the entry of the second alone.
C3_Witness ==
    /\ completion = "resolved"
    /\ response = <<Choice(JStr(Prose)), Choice(JStr(OnePair))>>
    /\ result = <<PairsValue(<<XY>>)>>

\* C4: in both entrypoints, when the submission fails (no response, or an
\* error response with a status), the entrypoint returns an empty
\* collection and does not raise.
C4_FailureReturnsEmpty ==
    completion = "rejected" => outcome = "returned" /\ result = <<>>

\* The segments of a message that carry media.
MediaSegments(message) ==
    IF "parts" \in DOMAIN message.content
    THEN SelectSeq(message.content.parts, LAMBDA p : p.type = "image_url")
    ELSE <<>>

\* Media is attached to the request submitted.
HasMedia ==
    \E i \in 1..Len(request.messages) :
        MediaSegments(request.messages[i]) # <<>>

Submitted == request # NoRequest

\* The vision model the claim expects: the one configured for the
\* provider, or the default of the provider when none is configured.
ExpectedVisionModel ==
    IF args.provider = "openai" THEN OPENAI_VISION_MODEL
    ELSE IF args.multimodalSettings.visionModel # ""
    THEN args.multimodalSettings.visionModel
    ELSE OLLAMA_DEFAULT_VISION_MODEL

\* C5: whenever media is attached to a request, in either entrypoint, the
\* model is the vision model configured for the provider, and the default
\* vision model of the provider ("llama3.2-vision:11b" for ollama) when
\* none is configured.
C5_VisionModelWithFallback ==
    Submitted /\ HasMedia => request.model = ExpectedVisionModel

\* The vision models a request can name.
VisionModels ==
    {OPENAI_VISION_MODEL, OLLAMA_DEFAULT_VISION_MODEL} \cup
    (IF args.multimodalSettings # NoSettings
     THEN {args.multimodalSettings.visionModel} ELSE {})

\* C6: a notes request with no resolved media names the text model of the
\* provider: for ollama the configured model, "llama3.2" when none is
\* configured; for openai the fixed text model; never a vision model.
C6_TextModel ==
    Submitted /\ args.entry = "notes" /\ processedImages = <<>> =>
        /\ request.model =
             IF args.provider = "openai" THEN "gpt-3.5-turbo-1106"
             ELSE IF args.model # "" THEN args.model
             ELSE "llama3.2"
        /\ request.model \notin VisionModels
        /\ ~HasMedia

\* Multimodal is enabled and the notes hold references, all of them
\* skipped; ollama has no configured model and "llama3.2" is submitted.
C6_Witness ==
    /\ pc = "awaiting" /\ args.entry = "notes"
    /\ args.provider = "ollama" /\ args.model = ""
    /\ Enabled(args.multimodalSettings)
    /\ imageReferences # <<>> /\ processedImages = <<>>
    /\ request.model = "llama3.2"

\* C7: a request carries response_format exactly when the provider is
\* openai and no media is attached; no request of the standalone
\* entrypoint carries it.
C7_ResponseFormat ==
    Submitted =>
        /\ "response_format" \in DOMAIN request
             <=> (args.provider = "openai" /\ ~HasMedia)
        /\ "response_format" \in DOMAIN request =>
             request.response_format = [type |-> "json_object"]
        /\ args.entry = "file" =>
             HasMedia /\ "response_format" \notin DOMAIN request

\* An openai request with an image attached and no response_format.
C7_Witness ==
    /\ pc = "awaiting" /\ args.entry = "notes" /\ args.provider = "openai"
    /\ HasMedia
    /\ "response_format" \notin DOMAIN request

Roles == [i \in 1..Len(request.messages) |-> request.messages[i].role]

\* C8: the messages of every request are one system message, the sample
\* user message, the sample assistant message and the real user message,
\* in this order.
C8_MessageOrder ==
    Submitted =>
        /\ Roles = <<"system", "user", "assistant", "user">>
        /\ request.messages[2].content = [text |-> "SAMPLE_NOTE"]
        /\ "stringify" \in DOMAIN request.messages[3].content

\* The pairs of the sample assistant message of the request.
SamplePairs ==
    LET i == CHOOSE j \in 1..Len(request.messages) :
                 request.messages[j].role = "assistant"
    IN  request.messages[i].content.stringify.questions_answers

\* C9: in both entrypoints the sample assistant message of a request for
\* k questions holds exactly k pairs, the k that the instruction names.
C9_SampleSize ==
    Submitted =>
        /\ request.messages[1].content.text.num = args.num_q
        /\ Len(SamplePairs) = args.num_q

\* C10: generateRepeatedSampleOutput(num) ends, and returns num entries,
\* the i-th (from 0) being entry i mod 12 of SAMPLE_OUTPUT, which no step
\* modifies.
C10_CyclicSample ==
    /\ gen.canonical = SAMPLE_OUTPUT
    /\ gen.pc = "loop" =>
         /\ gen.count = Len(gen.output)
         /\ gen.count < gen.num + Len(SAMPLE_OUTPUT)
    /\ gen.pc = "done" =>
         /\ Len(gen.ret) = gen.num
         /\ \A i \in 0..(gen.num - 1) :
               gen.ret[i + 1] = SAMPLE_OUTPUT[(i % 12) + 1]

\* The call with num = 15 has returned the 12 entries and then the first 3.
C10_Witness ==
    /\ gen.pc = "done" /\ gen.num = 15
    /\ gen.ret = SAMPLE_OUTPUT \o SubSeq(SAMPLE_OUTPUT, 1, 3)

\* The final message of the request.
LastMessage == request.messages[Len(request.messages)]

\* C11: a notes request with no resolved media carries the text-only
\* system instruction, and the content of its final user message is one
\* plain text, the trimmed notes between two line feeds, not an array of
\* segments.
C11_TextOnlyPrompt ==
    Submitted /\ args.entry = "notes" /\ processedImages = <<>> =>
        /\ request.messages[1].role = "system"
        /\ request.messages[1].content =
             [text |-> [template |-> "notes", num |-> args.num_q]]
        /\ LastMessage.role = "user"
        /\ DOMAIN LastMessage.content = {"text"}
        /\ LastMessage.content.text = <<LF>> \o Trim(args.notes) \o <<LF>>

\* Multimodal is enabled, both references of the notes were skipped, and
\* the notes are sent as one text with the references in it.
C11_Witness ==
    /\ pc = "awaiting" /\ args.entry = "notes"
    /\ Enabled(args.multimodalSettings)
    /\ Len(imageReferences) = 2 /\ processedImages = <<>>
    /\ DOMAIN LastMessage.content = {"text"}
    /\ LastMessage.content.text[2] = BANG_BR

\* ------------------------------------------------------------------------
\* The entrypoints up to the submission of the request, over notes with
\* several references and vaults whose listings tell the stages of the
\* path resolution apart.
Img(alt, path) == <<BANG_BR>> \o alt \o <<"]", "(">> \o path \o <<")">>

A_PNG == <<"a", ".", "png">>
D_A_PNG == <<"d", "/", "a", ".", "png">>
Z_A_PNG == <<"z", "/", "a", ".", "png">>
REMOTE_A_PNG == <<"https://", "x", "/", "a", ".", "png">>
BIG_PNG == <<"big", ".", "png">>
LIM_PNG == <<"lim", ".", "png">>
OVER_PNG == <<"over", ".", "png">>
DOC_PDF == <<"doc", ".", "pdf">>
SCAN_TIFF == <<"scan", ".", "tiff">>
UPPER_PNG == <<"D", ".", "PNG">>
MISSING_PNG == <<"missing", ".", "png">>
M_CONSTRUCTOR == <<"m", ".", "constructor">>

File(path, size, data) == [path |-> path, size |-> size, data |-> data]

\* Files of every vault: one of exactly maxImageSize KB, one a byte over,
\* one of 6000 KB, and files whose extension is not a default format, is
\* in upper case or is the name of a property of every object.
CommonFiles ==
    << File(LIM_PNG, DEFAULT_MAX_IMAGE_SIZE * BytesPerKB, "L"),
       File(OVER_PNG, DEFAULT_MAX_IMAGE_SIZE * BytesPerKB + 1, "O"),
       File(BIG_PNG, 6144000, "B"),
       File(DOC_PDF, 1024, "P"),
       File(SCAN_TIFF, 1024, "T"),
       File(UPPER_PNG, 1024, "U"),
       File(M_CONSTRUCTOR, 1024, "M") >>

\* a.png is the path of the second file and the name of the first.
VaultExact ==
    <<File(<<"x", "/">> \o A_PNG, 2048, "1"), File(A_PNG, 1024, "2")>>
    \o CommonFiles
\* The path of the first file ends with a.png, the name of the second is
\* a.png.
VaultName ==
    <<File(<<"b">> \o A_PNG, 2048, "1"), File(D_A_PNG, 1024, "2")>>
    \o CommonFiles
\* The name of the first file is a.png, the path of the second ends with
\* d/a.png.
VaultSuffix ==
    <<File(<<"e", "/">> \o A_PNG, 2048, "1"),
      File(<<"c", "/">> \o D_A_PNG, 1024, "2")>>
    \o CommonFiles

\* The path of the first file ends with a.png and no file has the name
\* a.png.
VaultTail == <<File(<<"b">> \o A_PNG, 2048, "1")>> \o CommonFiles

MediaVaults == {VaultExact, VaultName, VaultSuffix, VaultTail}

MediaNotes ==
    { <<"See", SP>> \o Img(<<"fig">>, A_PNG) \o <<SP, "and", SP>>
          \o Img(<<>>, D_A_PNG) \o <<LF>>,
      Img(<<>>, REMOTE_A_PNG) \o Img(<<"big">>, BIG_PNG) \o <<SP>>
          \o Img(<<"lim">>, LIM_PNG),
      Img(<<"o">>, OVER_PNG) \o Img(<<"t">>, SCAN_TIFF)
          \o Img(<<"p">>, DOC_PDF) \o Img(<<>>, UPPER_PNG),
      Img(<<"m">>, MISSING_PNG) \o <<SP, "then", SP>> \o Img(<<"z">>, Z_A_PNG),
      <<BANG_BR>> \o Img(<<"in">>, A_PNG) \o <<"]", "(", "c", ")">>,
      <<"x", "]", "(", "y", ")", SP, BANG_BR, "open">> }

MediaSettings ==
    { Settings(TRUE, "llava"),
      [Settings(TRUE, "llava") EXCEPT
          !.supportedFormats =
              DefaultFormats \cup {<<"pdf">>, <<"tiff">>, <<"constructor">>}] }

MediaNotesArgs ==
    [entry : {"notes"}, app : MediaVaults, provider : {"ollama"},
     apiKey : {API_KEY}, baseUrl : {BASE_URL},
     notes : MediaNotes, num_q : {1}, num : {1}, options : {DefaultOptions},
     model : {""}, multimodalSettings : MediaSettings]

MediaFileArgs ==
    { a \in [entry : {"file"}, app : MediaVaults, provider : {"ollama"},
             apiKey : {API_KEY}, baseUrl : {BASE_URL},
             file : 1..Len(VaultExact), num_q : {1}, num : {1},
             options : {DefaultOptions}, model : {""},
             multimodalSettings : MediaSettings] : a.file <= Len(a.app) }

NextMedia ==
    \/ pc = "idle" /\ \E a \in MediaNotesArgs : convertNotesToFlashcards(a)
    \/ NotesReadResolved
    \/ NotesReadRejected
    \/ pc = "idle" /\ \E a \in MediaFileArgs : convertStandaloneFileToFlashcards(a)
    \/ FileReadResolved
    \/ FileReadRejected

SpecMedia == Init /\ [][NextMedia]_vars

\* The maps from 1..k to 1..n that keep the order.
Increasing(k, n) ==
    {f \in [1..k -> 1..n] : \A i, j \in 1..k : i < j => f[i] < f[j]}

\* The media segment the request must hold for an item.
SegmentFor(item) ==
    [type |-> "image_url",
     image_url |-> [url |-> <<"data:", item.mimeType, ";base64,", item.base64>>]]

\* items are made from references of refs, taken in the order of refs.
InReferenceOrder(items, refs) ==
    \E f \in Increasing(Len(items), Len(refs)) :
        \A i \in 1..Len(items) :
            /\ items[i].alt = refs[f[i]].alt
            /\ ResolveImage(args.app, refs[f[i]].path) # 0
            /\ items[i].path =
                 args.app[ResolveImage(args.app, refs[f[i]].path)].path

\* C12: the final user message of a notes request with k >= 1 resolved
\* media items holds k + 1 segments, one text segment and then one media
\* segment per item, in the order of the items, which is the order of the
\* references in the note; the system instruction is the media-aware one.
\* The request for a standalone file holds the text and then its one item.
C12_MediaLayout ==
    Submitted =>
        /\ args.entry = "notes" /\ Len(processedImages) >= 1 =>
             /\ request.messages[1].content =
                  [text |-> [template |-> "notes and images",
                             num |-> args.num_q]]
             /\ LastMessage.role = "user"
             /\ DOMAIN LastMessage.content = {"parts"}
             /\ Len(LastMessage.content.parts) = Len(processedImages) + 1
             /\ LastMessage.content.parts[1].type = "text"
             /\ \A i \in 1..Len(processedImages) :
                   LastMessage.content.parts[i + 1] =
                       SegmentFor(processedImages[i])
             /\ InReferenceOrder(processedImages,
                                 extractImageReferences(args.notes))
        /\ args.entry = "file" =>
             /\ DOMAIN LastMessage.content = {"parts"}
             /\ Len(LastMessage.content.parts) = 2
             /\ LastMessage.content.parts[1].type = "text"
             /\ LastMessage.content.parts[2].type = "image_url"

\* Both references of a note were resolved: the request holds the text,
\* the item of the first reference and then the item of the second.
C12_Witness ==
    /\ pc = "awaiting" /\ args.entry = "notes"
    /\ Len(imageReferences) = 2 /\ Len(processedImages) = 2
    /\ processedImages[1].alt = <<"fig">> /\ processedImages[2].alt = <<>>
    /\ processedImages[1].path # processedImages[2].path
    /\ Len(LastMessage.content.parts) = 3
    /\ LastMessage.content.parts[2] = SegmentFor(processedImages[1])
    /\ LastMessage.content.parts[3] = SegmentFor(processedImages[2])

\* No readBinary of the call has failed.
ReadsSucceeded ==
    \A i \in 1..Len(log) :
        log[i] # [level |-> "error", message |-> "Error processing image"]

IsRemote(path) == path # <<>> /\ path[1] \in {"http://", "https://"}

\* The files of the listing that some stage of the resolution accepts
\* for the path p.
Candidates(listing, p) ==
    {i \in 1..Len(listing) :
        \/ listing[i].path = p
        \/ AfterLast(listing[i].path, "/") = p
        \/ endsWith(listing[i].path, p)
        \/ AfterLast(listing[i].path, "/") = AfterLast(p, "/")}

\* The four conditions under which a reference becomes a media item.
Passes(ref) ==
    /\ ~IsRemote(ref.path)
    /\ toLowerCase(AfterLast(ref.path, ".")) \in
           args.multimodalSettings.supportedFormats
    /\ Candidates(args.app, ref.path) # {}
    /\ args.app[ResolveImage(args.app, ref.path)].size
           <= args.multimodalSettings.maxImageSize * 1024

KeptReferences == SelectSeq(extractImageReferences(args.notes), Passes)

Earliest(S) == CHOOSE i \in S : \A j \in S : i <= j

\* The file that the four stages give for the path p, 0 for none.
StageFile(listing, p) ==
    LET files == 1..Len(listing)
        exact == {i \in files : listing[i].path = p}
        named == {i \in files : AfterLast(listing[i].path, "/") = p}
        suffixed == {i \in files : endsWith(listing[i].path, p)}
        based == {i \in files :
                     AfterLast(listing[i].path, "/") = AfterLast(p, "/")}
    IN  IF exact # {} THEN Earliest(exact)
        ELSE IF named # {} THEN Earliest(named)
        ELSE IF suffixed # {} THEN Earliest(suffixed)
        ELSE IF based # {} THEN Earliest(based)
        ELSE 0

\* C14: the file that processImages reads for a reference path p is the
\* file at path p if there is one; otherwise the first file of the listing
\* whose name is p; otherwise the first whose path ends with p; otherwise
\* the first whose name is the last component of p.  A path that no stage
\* resolves is never read.
C14_ResolutionOrder ==
    pc = "reading" /\ args.entry = "notes" =>
        /\ reading # 0
        /\ reading = StageFile(args.app, imageReferences[imgIdx].path)
        /\ \A k \in 1..Len(imageReferences) :
              StageFile(args.app, imageReferences[k].path) = 0 => k # imgIdx

\* a.png is read from the second file, whose name it is, though the path
\* of the first file of the listing ends with a.png.
C14_Witness ==
    /\ pc = "reading" /\ args.entry = "notes"
    /\ args.app = VaultName
    /\ imageReferences[imgIdx].path = A_PNG
    /\ endsWith(args.app[1].path, A_PNG)
    /\ reading = 2

\* The file is over the limit: its size in KB, bytes / 1024, is strictly
\* greater than maxImageSize.
OverLimit(f) == f.size > args.multimodalSettings.maxImageSize * 1024

\* The reference passes every check but that of the size.
Eligible(ref) ==
    /\ ~IsRemote(ref.path)
    /\ toLowerCase(AfterLast(ref.path, ".")) \in
           args.multimodalSettings.supportedFormats
    /\ StageFile(args.app, ref.path) # 0

\* An item was made for the reference.
HasItem(ref) ==
    \E i \in 1..Len(processedImages) :
        /\ processedImages[i].alt = ref.alt
        /\ processedImages[i].path = args.app[StageFile(args.app, ref.path)].path

MimeTypes ==
    {"image/jpeg", "image/png", "image/gif", "image/bmp", "image/webp",
     "application/pdf"}

\* The MIME type of the claim for an extension, in either case.
MimeFor(ext) ==
    CASE ext \in {<<"jpg">>, <<"JPG">>, <<"jpeg">>, <<"Jpeg">>} -> "image/jpeg"
      [] ext \in {<<"png">>, <<"PNG">>} -> "image/png"
      [] ext = <<"gif">> -> "image/gif"
      [] ext = <<"bmp">> -> "image/bmp"
      [] ext \in {<<"webp">>} -> "image/webp"
      [] ext \in {<<"pdf">>, <<"PDF">>} -> "application/pdf"
      [] OTHER -> "image/jpeg"

\* Extensions as they may be written.
Extensions ==
    {<<"jpg">>, <<"JPG">>, <<"jpeg">>, <<"Jpeg">>, <<"png">>, <<"PNG">>,
     <<"gif">>, <<"bmp">>, <<"webp">>, <<"pdf">>, <<"PDF">>, <<"tiff">>,
     <<"svg">>, <<"constructor">>, <<>>}

\* C16: getMimeType maps an extension, in either case, to the MIME type of
\* its table and any other extension to image/jpeg; the mimeType of every
\* item of processImages and of the item of processStandaloneFile is the
\* one of the extension of the file resolved, one of six values.
C16_MimeMapping ==
    pc # "idle" =>
        /\ \A ext \in Extensions : getMimeType(ext) = MimeFor(ext)
        /\ \A i \in 1..Len(args.app) :
              getMimeType(AfterLast(args.app[i].path, ".")) =
                  MimeFor(AfterLast(args.app[i].path, "."))
        /\ \A i \in 1..Len(processedImages) :
              /\ processedImages[i].mimeType \in MimeTypes
              /\ processedImages[i].mimeType =
                   MimeFor(AfterLast(processedImages[i].path, "."))
        /\ Submitted /\ args.entry = "file" =>
              /\ LastMessage.content.parts[2].image_url.url[2] \in MimeTypes
              /\ LastMessage.content.parts[2].image_url.url[2] =
                   MimeFor(AfterLast(args.app[args.file].path, "."))

\* sub occurs in s.
Contains(s, sub) ==
    \E i \in 1..(Len(s) - Len(sub) + 1) : SubSeq(s, i, i + Len(sub) - 1) = sub

\* Where sub first occurs in s.
FirstAt(s, sub) ==
    CHOOSE i \in 1..(Len(s) - Len(sub) + 1) :
        /\ SubSeq(s, i, i + Len(sub) - 1) = sub
        /\ \A j \in 1..(i - 1) : SubSeq(s, j, j + Len(sub) - 1) # sub

\* The text of a reference, and what the claim puts in its place.
SyntaxOf(ref) == <<"![">> \o ref.alt \o <<"]", "(">> \o ref.path \o <<")">>
ReplacementOf(ref) ==
    IF ref.alt # <<>> THEN ref.alt ELSE <<"[Image: ">> \o ref.path \o <<"]">>

\* The text with the references of refs, which occur in it in this order,
\* replaced one after the other, and nothing else changed.
RECURSIVE Rebuilt(_, _)
Rebuilt(text, refs) ==
    IF refs = <<>> THEN text
    ELSE LET at == FirstAt(text, SyntaxOf(refs[1]))
         IN  SubSeq(text, 1, at - 1) \o ReplacementOf(refs[1]) \o
             Rebuilt(SubSeq(text, at + Len(SyntaxOf(refs[1])), Len(text)),
                     Tail(refs))

C18_NoPathLeak ==
    pc = "awaiting" /\ args.entry = "notes" /\ Len(processedImages) >= 1 =>
        \A k \in 1..Len(extractImageReferences(args.notes)) :
            ~Contains(LastMessage.content.parts[1].text,
                      extractImageReferences(args.notes)[k].path)

\* C19: every request submitted, by either entrypoint, asks for exactly
\* num choices: its parameter n is the sample count.
C19_SampleCount ==
    Submitted => "n" \in DOMAIN request /\ request.n = args.num

\* C20: in every request submitted, by either entrypoint, max_tokens is
\* max_tokens_per_question times the number of questions, whatever the
\* sample count, and max_tokens_per_question is no parameter of the
\* request.
C20_TokenBudget ==
    Submitted =>
        /\ request.max_tokens =
             args.options.max_tokens_per_question * args.num_q
        /\ "max_tokens_per_question" \notin DOMAIN request

\* A failure was logged: the last line of the log is an error.
FailureLogged == log # <<>> /\ log[Len(log)].level = "error"

\* C21: no step of an invocation submits a second request; once create
\* has settled, or the invocation has ended, or a failure of the request
\* was logged, no request is submitted; and every read of processImages is
\* for a reference after the one read before, the standalone entrypoint
\* reading its file once.
C21_NoRetries ==
    [][ /\ submissions' <= 1
        /\ submissions' >= submissions
        /\ (completion # "none" \/ outcome # "pending" \/ pc = "done")
               => submissions' = submissions
        /\ (pc = "awaiting" /\ FailureLogged') => submissions' = submissions
        /\ (pc = "reading" /\ pc' = "reading") => imgIdx' > imgIdx
        /\ (pc' = "reading" /\ args'.entry = "file") => pc = "idle"
      ]_vars

\* create has failed with a provider error after one submission, and the
\* invocation is over.
C21_Witness ==
    /\ pc = "done" /\ completion = "rejected" /\ submissions = 1
    /\ FailureLogged
    /\ log[Len(log)].message = "ERR status: Could not connect"

\* ------------------------------------------------------------------------
\* The functions of gpt.ts over the configurations of a provider: an API
\* key that is empty or not, a base URL that is absent, empty or not.
ApiKeys == {"", API_KEY}
BaseUrls == {Undefined, JStr(<<>>), BASE_URL}

ConfigNotesArgs ==
    [entry : {"notes"}, app : {Vault}, provider : Providers,
     apiKey : ApiKeys, baseUrl : BaseUrls, notes : {<<"Cells", SP, "divide">>},
     num_q : {1}, num : {1}, options : {DefaultOptions}, model : {""},
     multimodalSettings : {NoSettings}]

ConfigFileArgs ==
    [entry : {"file"}, app : {Vault}, provider : Providers,
     apiKey : ApiKeys, baseUrl : BaseUrls, file : {1, 2}, num_q : {1},
     num : {1}, options : {DefaultOptions}, model : {""},
     multimodalSettings : {Settings(TRUE, "llava")}]

CheckArgs ==
    [entry : {"checkAI"}, provider : Providers, apiKey : ApiKeys,
     baseUrl : BaseUrls]

GptArgs == [entry : {"checkGpt"}, openAiKey : ApiKeys]

\* A call of checkAI: it logs what it has to and returns.
InvokeCheckAI(a) ==
    /\ pc = "idle"
    /\ args' = a
    /\ pc' = "done"
    /\ log' = log \o checkAI(a.provider, a.apiKey, a.baseUrl).log
    /\ outcome' = "returned"
    /\ result' = checkAI(a.provider, a.apiKey, a.baseUrl).ret
    /\ UNCHANGED <<imageReferences, imgIdx, reading, processedImages, request,
                   submissions, response, completion, gen, concVars>>

InvokeCheckGpt(a) ==
    /\ pc = "idle"
    /\ args' = a
    /\ pc' = "done"
    /\ log' = log \o checkGpt(a.openAiKey).log
    /\ outcome' = "returned"
    /\ result' = checkGpt(a.openAiKey).ret
    /\ UNCHANGED <<imageReferences, imgIdx, reading, processedImages, request,
                   submissions, response, completion, gen, concVars>>

NextConfig ==
    \/ pc = "idle" /\ \E a \in CheckArgs : InvokeCheckAI(a)
    \/ pc = "idle" /\ \E a \in GptArgs : InvokeCheckGpt(a)
    \/ pc = "idle" /\ \E a \in ConfigNotesArgs : convertNotesToFlashcards(a)
    \/ \E err \in Errors : NotesCompletionRejected(err)
    \/ /\ pc = "awaiting"
       /\ \E choices \in ChoiceSeqs(args.num) : NotesCompletionResolved(choices)
    \/ pc = "idle" /\ \E a \in ConfigFileArgs : convertStandaloneFileToFlashcards(a)
    \/ FileReadResolved
    \/ FileReadRejected
    \/ \E err \in Errors : FileCompletionRejected(err)
    \/ /\ pc = "awaiting"
       /\ \E choices \in ChoiceSeqs(args.num) : FileCompletionResolved(choices)

SpecConfig == Init /\ [][NextConfig]_vars

\* The configuration the claims call valid for the provider.
ValidConfig ==
    /\ args.provider = "openai" => args.apiKey # ""
    /\ args.provider = "ollama" =>
          args.baseUrl # Undefined /\ args.baseUrl # JStr(<<>>)

IsEntrypoint == pc # "idle" /\ args.entry \in {"notes", "file"}

\* C22: an invocation of an entrypoint whose configuration is invalid for
\* the provider (openai with an empty API key, ollama with an absent or
\* empty base URL) submits no request, and returns an empty collection
\* without raising.
C22_ConfigGate ==
    IsEntrypoint /\ ~ValidConfig =>
        /\ submissions = 0
        /\ request = NoRequest
        /\ outcome # "raised"
        /\ pc = "done" => result = <<>>

\* The configurations for which the claim has checkAI return false.
Refused(provider, apiKey, baseUrl) ==
    \/ provider = "openai" /\ apiKey = ""
    \/ provider = "ollama" /\ baseUrl \in {Undefined, JStr(<<>>)}

\* C23: checkAI returns, never raising; it returns false and logs exactly
\* one error exactly when the provider is openai and the key is empty, or
\* the provider is ollama and the base URL is absent or empty, and
\* otherwise returns true and logs nothing; what it returns for openai is
\* the same for every base URL and for ollama the same for every key; and
\* checkGpt(key) is checkAI("openai", key).
C23_CheckAITable ==
    /\ pc = "done" /\ args.entry = "checkAI" =>
         /\ outcome = "returned"
         /\ result = ~Refused(args.provider, args.apiKey, args.baseUrl)
         /\ result = FALSE =>
               Len(log) = 1 /\ log[1].level = "error"
         /\ result = TRUE => log = <<>>
         /\ args.provider = "openai" =>
               \A b \in BaseUrls :
                   checkAI("openai", args.apiKey, b).ret = result
         /\ args.provider = "ollama" =>
               \A k \in ApiKeys :
                   checkAI("ollama", k, args.baseUrl).ret = result
    /\ pc = "done" /\ args.entry = "checkGpt" =>
         /\ outcome = "returned"
         /\ \A b \in BaseUrls :
               /\ result = checkAI("openai", args.openAiKey, b).ret
               /\ log = checkAI("openai", args.openAiKey, b).log

\* checkAI has refused ollama with an empty base URL, whatever the key.
C23_Witness ==
    /\ pc = "done" /\ args.entry = "checkAI"
    /\ args.provider = "ollama" /\ args.baseUrl = JStr(<<>>)
    /\ args.apiKey = ""
    /\ result = FALSE
    /\ log = <<[level |-> "error", message |-> "Ollama base URL not provided"]>>

\* The file given to the standalone entrypoint fails the check of the
\* format or of the size.
FileFailsCheck ==
    \/ toLowerCase(AfterLast(args.app[args.file].path, ".")) \notin
           args.multimodalSettings.supportedFormats
    \/ args.app[args.file].size > args.multimodalSettings.maxImageSize * 1024

\* C24: a media item that fails a check of the resolver never makes an
\* entrypoint raise: the notes entrypoint does not raise, and the
\* standalone entrypoint, given a file that fails the check of the format
\* or of the size, returns a collection.
C24_MediaNeverFatal ==
    IsEntrypoint =>
        /\ args.entry = "notes" => outcome # "raised"
        /\ args.entry = "file" /\ Enabled(args.multimodalSettings)
           /\ FileFailsCheck =>
             /\ outcome # "raised"
             /\ pc = "done" => outcome = "returned"

\* ------------------------------------------------------------------------
\* IMAGE_REGEX has the g flag: exec starts its search at lastIndex, leaves
\* lastIndex after the match it finds, and sets it to 0 when it finds none.
RECURSIVE FirstMatchFrom(_, _)
FirstMatchFrom(s, i) ==
    IF i > Len(s) THEN [ok |-> FALSE, alt |-> <<>>, path |-> <<>>, end |-> 0]
    ELSE IF MatchImageAt(s, i).ok THEN MatchImageAt(s, i)
    ELSE FirstMatchFrom(s, i + 1)

\* A variant of RegExpExec that leaves lastIndex as it is when it finds
\* no match.
RegExpExec_NoReset(text, from) ==
    LET m == FirstMatchFrom(text, from + 1)
    IN  [ok |-> m.ok, alt |-> m.alt, path |-> m.path,
         lastIndex |-> IF m.ok THEN m.end ELSE from]

\* IMAGE_REGEX.exec(text) with lastIndex = from.
RegExpExec(text, from) ==
    LET m == FirstMatchFrom(text, from + 1)
    IN  [ok |-> m.ok, alt |-> m.alt, path |-> m.path,
         lastIndex |-> IF m.ok THEN m.end ELSE 0]

\* The loop of extractImageReferences, with lastIndex = from when it is
\* entered: [images, lastIndex].
RECURSIVE ExecLoop(_, _, _)
ExecLoop(text, from, images) ==
    LET match == RegExpExec(text, from)
    IN  IF match.ok
        THEN ExecLoop(text, match.lastIndex,
                      Append(images, [alt |-> match.alt, path |-> match.path]))
        ELSE [images |-> images, lastIndex |-> match.lastIndex]

\* markdownText.replace(IMAGE_REGEX, ...): replace with a global regular
\* expression sets lastIndex to 0 before its first search, and its last
\* search, which finds nothing, leaves it at 0.
ReplaceAll(text, from) ==
    [text |-> stripImageMarkdown(text), lastIndex |-> 0]

ConcSettings == Settings(TRUE, "llava")

\* The request of an invocation in flight.
ConcParams(notes, images) ==
    NotesParams("ollama", "", ConcSettings, DefaultOptions,
                IF Len(images) > 0
                THEN ReplaceAll(notes, lastIndex).text ELSE notes,
                1, 1, images)

\* Invocation r from reference `from` of its loop to its next await.
\* li and seen are lastIndex and marks as the step has them so far.
ConcContinue(r, notes, refs, from, images, li, seen) ==
    LET scan == ScanImages(Vault, refs, from, ConcSettings, <<>>)
    IN  IF scan.idx # 0
        THEN /\ reqs' = [reqs EXCEPT ![r] =
                            [pc |-> "reading", notes |-> notes, refs |-> refs,
                             idx |-> scan.idx, reading |-> scan.file,
                             images |-> images, request |-> [absent |-> TRUE],
                             result |-> <<>>]]
             /\ lastIndex' = li
             /\ marks' = seen
        ELSE /\ reqs' = [reqs EXCEPT ![r] =
                            [pc |-> "awaiting", notes |-> notes, refs |-> refs,
                             idx |-> 0, reading |-> 0, images |-> images,
                             request |-> ConcParams(notes, images),
                             result |-> <<>>]]
             /\ lastIndex' = IF Len(images) > 0
                             THEN ReplaceAll(notes, li).lastIndex ELSE li
             /\ marks' = IF Len(images) > 0
                         THEN seen \cup {li, ReplaceAll(notes, li).lastIndex}
                         ELSE seen

ConcCall(r, notes) ==
    /\ reqs[r].pc = "idle"
    /\ ConcContinue(r, notes, ExecLoop(notes, lastIndex, <<>>).images, 1,
                    <<>>, ExecLoop(notes, lastIndex, <<>>).lastIndex,
                    marks \cup {lastIndex,
                                ExecLoop(notes, lastIndex, <<>>).lastIndex})
    /\ UNCHANGED <<entryVars, gen>>

ConcReadResolved(r) ==
    /\ reqs[r].pc = "reading"
    /\ ConcContinue(r, reqs[r].notes, reqs[r].refs, reqs[r].idx + 1,
                    Append(reqs[r].images,
                           ImageInfoOf(Vault[reqs[r].reading],
                                       reqs[r].refs[reqs[r].idx].alt)),
                    lastIndex, marks)
    /\ UNCHANGED <<entryVars, gen>>

ConcResponse == <<Choice(JStr(OnePair))>>

ConcCompletionResolved(r) ==
    /\ reqs[r].pc = "awaiting"
    /\ reqs' = [reqs EXCEPT ![r].pc = "done",
                            ![r].result = ForEachNotes(ConcResponse, 1, <<>>)]
    /\ UNCHANGED <<entryVars, gen, lastIndex, marks>>

NextConc ==
    \/ \E r \in Requests, notes \in NotesValues : ConcCall(r, notes)
    \/ \E r \in Requests : ConcReadResolved(r)
    \/ \E r \in Requests : ConcCompletionResolved(r)

SpecConc == Init /\ [][NextConc]_vars

\* What processImages resolves for the references from `from` on when the
\* invocation runs on its own and every read succeeds.
RECURSIVE AloneImages(_, _, _)
AloneImages(refs, from, images) ==
    LET scan == ScanImages(Vault, refs, from, ConcSettings, <<>>)
    IN  IF scan.idx = 0 THEN images
        ELSE AloneImages(refs, scan.idx + 1,
                         Append(images, ImageInfoOf(Vault[scan.file],
                                                    refs[scan.idx].alt)))

AloneReferences(notes) == extractImageReferences(notes)

AloneRequest(notes) ==
    NotesParams("ollama", "", ConcSettings, DefaultOptions,
                ProcessedNotes(notes, AloneImages(AloneReferences(notes), 1, <<>>)),
                1, 1, AloneImages(AloneReferences(notes), 1, <<>>))

\* C25: with invocations interleaved at their awaits, IMAGE_REGEX.lastIndex
\* is 0 each time extractImageReferences or stripImageMarkdown is entered
\* or left, and the references, the media, the request and the result of
\* every invocation are those it has when it runs alone.
C25_RequestIsolation ==
    /\ lastIndex = 0
    /\ marks \subseteq {0}
    /\ \A r \in Requests :
          /\ reqs[r].pc # "idle" =>
                reqs[r].refs = AloneReferences(reqs[r].notes)
          /\ reqs[r].pc = "reading" =>
                reqs[r].images =
                    AloneImages(SubSeq(reqs[r].refs, 1, reqs[r].idx - 1), 1, <<>>)
          /\ reqs[r].pc \in {"awaiting", "done"} =>
                /\ reqs[r].images = AloneImages(reqs[r].refs, 1, <<>>)
                /\ reqs[r].request = AloneRequest(reqs[r].notes)
          /\ reqs[r].pc = "done" =>
                reqs[r].result = ForEachNotes(ConcResponse, 1, <<>>)

\* One invocation is suspended on a file read after another, with a
\* different text, has used both functions and is waiting for its
\* completion.
C25_Witness ==
    /\ reqs[1].pc = "reading"
    /\ Len(reqs[1].refs) = 3
    /\ reqs[2].pc = "awaiting"
    /\ Len(reqs[2].images) = 1
    /\ reqs[2].notes # reqs[1].notes
    /\ marks = {0}

\* ------------------------------------------------------------------------
\* The entrypoints over completions whose content is valid JSON of every
\* shape: questions_answers holding a number, a string, an object or null,
\* a top-level value that is no object, each bare and in a fenced block,
\* next to the well-formed ones.
QAWith(value) ==
    <<"{">> \o Quoted("questions_answers") \o <<":">> \o value \o <<"}">>
Fenced(text) == <<FENCE, "json", LF>> \o text \o <<LF, FENCE>>
QANumber == QAWith(<<"5">>)
QAString == QAWith(Quoted("X"))
QAObject == QAWith(PairText("X", "Y"))
QANull == QAWith(<<"null">>)
TopNumber == <<"5">>
TopString == Quoted("X")
TopArray == <<"[">> \o PairText("X", "Y") \o <<"]">>

ShapeContents ==
    {JStr(OnePair), JStr(FencedJson),
     JStr(QANumber), JStr(QAString), JStr(QAObject), JStr(QANull),
     JStr(TopNumber), JStr(TopString), JStr(TopArray),
     JStr(Fenced(QANumber)), JStr(Fenced(QAString)), JStr(Fenced(QAObject)),
     JStr(Fenced(QANull)), JStr(Fenced(TopArray)), JStr(FenceInString)}

ShapeChoiceSeqs(num) == SeqsUpTo({Choice(c) : c \in ShapeContents}, num)

ShapeNotesArgs ==
    [entry : {"notes"}, app : {Vault}, provider : {"openai"},
     apiKey : {API_KEY}, baseUrl : {BASE_URL}, notes : {<<"Cells", SP, "divide">>},
     num_q : {1}, num : NumValues, options : {DefaultOptions},
     model : {""}, multimodalSettings : {NoSettings}]

ShapeFileArgs ==
    [entry : {"file"}, app : {Vault}, provider : {"openai"},
     apiKey : {API_KEY}, baseUrl : {BASE_URL}, file : {1}, num_q : {1},
     num : NumValues, options : {DefaultOptions}, model : {""},
     multimodalSettings : {Settings(TRUE, "llava")}]

NextShape ==
    \/ pc = "idle" /\ \E a \in ShapeNotesArgs : convertNotesToFlashcards(a)
    \/ /\ pc = "awaiting"
       /\ \E choices \in ShapeChoiceSeqs(args.num) :
             NotesCompletionResolved(choices)
    \/ pc = "idle" /\ \E a \in ShapeFileArgs :
                         convertStandaloneFileToFlashcards(a)
    \/ FileReadResolved
    \/ /\ pc = "awaiting"
       /\ \E choices \in ShapeChoiceSeqs(args.num) :
             FileCompletionResolved(choices)

SpecShape == Init /\ [][NextShape]_vars

\* An array whose elements are objects with the keys q and a.
IsPairArray(v) ==
    /\ v.t = "arr"
    /\ \A i \in 1..Len(v.items) :
          /\ v.items[i].t = "obj"
          /\ DOMAIN v.items[i].members = {<<"q">>, <<"a">>}

\* C26: every entry of the collection either entrypoint returns is an
\* array of question/answer pairs: a choice whose questions_answers is no
\* array, or whose JSON is no object, bare or fenced, adds no entry.
C26_ResultShape ==
    (completion = "resolved" /\ args.entry \in {"notes", "file"}) =>
        \A i \in 1..Len(result) : IsPairArray(result[i])

\* The note text in the final user message of the request.
SentText ==
    IF "parts" \in DOMAIN LastMessage.content
    THEN LastMessage.content.parts[1].text ELSE LastMessage.content.text

\* C27: the note text sent by convertNotesToFlashcards is the stripped
\* notes exactly when at least one media item was resolved, and then no
\* reference of the notes is left in it, the skipped ones included; with no
\* media item, or multimodal disabled or absent, it is the original notes,
\* trimmed, with every reference in it.
C27_ConditionalStrip ==
    Submitted /\ args.entry = "notes" =>
        /\ ~Enabled(args.multimodalSettings) => processedImages = <<>>
        /\ Len(processedImages) >= 1 =>
              /\ SentText =
                    <<LF>> \o Trim(Rebuilt(args.notes,
                                extractImageReferences(args.notes))) \o <<LF>>
              /\ \A k \in 1..Len(extractImageReferences(args.notes)) :
                    ~Contains(SentText,
                              SyntaxOf(extractImageReferences(args.notes)[k]))
        /\ Len(processedImages) = 0 =>
              /\ SentText = <<LF>> \o Trim(args.notes) \o <<LF>>
              /\ \A k \in 1..Len(extractImageReferences(args.notes)) :
                    Contains(SentText,
                             SyntaxOf(extractImageReferences(args.notes)[k]))

\* Two of the three references of the notes were resolved, the remote one
\* was skipped, and the request was submitted.
C27_Witness ==
    /\ Submitted /\ args.entry = "notes"
    /\ Len(extractImageReferences(args.notes)) = 3
    /\ Len(processedImages) = 2

\* The file f matches the reference path p: its name is the last component
\* of p and, where its path ends with p, p starts at the start of the path
\* or right after a "/".
MatchesReference(f, p) ==
    /\ FileName(f) = AfterLast(p, "/")
    /\ (endsWith(f.path, p) /\ Len(f.path) > Len(p)) =>
          f.path[Len(f.path) - Len(p)] = "/"

\* C28: the file that processImages reads for a reference path p, and so
\* every media item it produces, has as its name the last component of p,
\* and a match of the end of its path with p starts at a path segment: a
\* reference never resolves to a file whose different name only ends like
\* p.
C28_ResolvedMatchesReference ==
    pc # "idle" /\ args.entry = "notes" =>
        /\ pc = "reading" =>
              MatchesReference(args.app[reading], imageReferences[imgIdx].path)
        /\ \A k \in 1..Len(processedImages) :
              \E j \in 1..Len(imageReferences) :
                  /\ processedImages[k].alt = imageReferences[j].alt
                  /\ MatchesReference([path |-> processedImages[k].path],
                                      imageReferences[j].path)

====
